---- MODULE Spec2Model ----
(***************************************************************************)
(* Model of the Pinterest template generator of APP2/buffer/design.py:     *)
(* SmartColorPinterestGenerator.detect_dominant_color (colour analysis)    *)
(* and SmartColorPinterestGenerator.create_color_matched_template (layout  *)
(* and compositing).                                                       *)
(*                                                                         *)
(* Colour strings are sequences of one-character strings, so that the hex  *)
(* formatting of line 105 and the string tests made on a colour are        *)
(* computed and not assumed.  Pixels and buckets are triples <<r, g, b>>.  *)
(***************************************************************************)
EXTENDS Integers, Sequences, FiniteSets, TLC

VARIABLES
    numpy_weak_scalars, \* TRUE: the installed NumPy promotes by NEP 50 (NumPy >= 2)
    apc,                \* position of a direct detect_dominant_color call
    pixels,             \* the resized image as the array of line 50
    fault,              \* TRUE: resize / array conversion raises (lines 44-50)
    analysis,           \* what detect_dominant_color handed to its caller
    pc,                 \* position of create_color_matched_template
    source_img,         \* the file at source_image_path, as Image.open sees it
    title,              \* the title, one entry (a rendered width) per word
    use_auto_color,     \* argument
    manual_color,       \* argument
    detected_color,     \* local of line 154 / 157
    detect_calls,       \* number of detect_dominant_color calls of this render
    is_grid,            \* local of line 165
    top_image,          \* source box of the top band (lines 173 / 183)
    bottom_image,       \* source box of the bottom band (lines 176 / 184)
    canvas,             \* the drawing operations applied to the canvas, in order
    lines,              \* wrapped title lines (lines 259-274)
    outcome,            \* what create_color_matched_template handed to its caller
    caller,             \* the function the request entered by
    output_path,        \* local output_path of the module-level functions
    wrapper_result,     \* what the module-level function handed to its caller
    files,              \* directories and files the calls created
    fonts,              \* the machine's font files, one entry per candidate path
    fpc,                \* position of a direct load_font call
    font,               \* what load_font handed to its caller
    current,            \* the invocation that is running
    other,              \* the locals of the invocation that is not running
    generator,          \* the instance attributes set by __init__
    clock,              \* time.time(), in whole seconds
    bpc,                \* position of main of buffer.py
    cookies_txt,        \* the cookies file: readable or not, the cookie names in it
    cookie_header,      \* local cookie_header of main: the names sent
    images,             \* the supported images of the images directory
    chosen,             \* local chosen of main
    answer,             \* what the user typed at the confirmation prompt
    presign,            \* local presign of upload_image_to_buffer
    media_url,          \* local media_url of main
    upload,             \* how the call of upload_image_to_buffer ended
    net                 \* the HTTP requests made, in order

vars == <<numpy_weak_scalars, apc, pixels, fault, analysis, pc, source_img, title,
          use_auto_color, manual_color, detected_color, detect_calls, is_grid,
          top_image, bottom_image, canvas, lines, outcome, caller, output_path,
          wrapper_result, files, fonts, fpc, font, current, other, generator, clock,
          bpc, cookies_txt, cookie_header, images, chosen, answer, presign, media_url,
          upload, net>>

analyzerVars == <<apc, pixels, fault, analysis>>
renderVars == <<pc, source_img, title, use_auto_color, manual_color, detected_color,
                detect_calls, is_grid, top_image, bottom_image, canvas, lines, outcome>>
wrapperVars == <<caller, output_path, wrapper_result, files>>
fontVars == <<fonts, fpc, font>>
threadVars == <<current, other>>
schedulerVars == <<bpc, cookies_txt, cookie_header, images, chosen, answer, presign,
                   media_url, upload, net>>

-----------------------------------------------------------------------------
(* Bounds of the model *)

\* sampled pixels of an analysed image (the code samples 100 x 100; only the
\* proportions of the colours enter the score)
MaxPixels == 5
\* source images of every width and height up to MaxDim, besides SpecialSizes
MaxDim == 4
\* words of a title
MaxWords == 2
\* words of a title in the renders that exercise the text layout
MaxTitleWords == 3
\* seconds the clock advances while the calls of a behaviour run
MaxClock == 1
\* image files in the images directory of the scheduler script
MaxImages == 2

-----------------------------------------------------------------------------
(* SmartColorPinterestGenerator.__init__ *)

canvas_width == 735
canvas_height == 1102
top_image_height == 400
banner_height == 120
bottom_image_height == canvas_height - top_image_height - banner_height
default_color == <<"#", "F", "F", "9", "8", "0", "0">>
text_color == <<"#", "F", "F", "F", "F", "F", "F">>

\* a constructor with the height of the bottom band written out, and wrong
HardCodedBottom ==
    [canvas_width |-> canvas_width, canvas_height |-> canvas_height,
     top_image_height |-> top_image_height, banner_height |-> banner_height,
     bottom_image_height |-> 580,
     default_color |-> default_color, text_color |-> text_color]

\* lines 17-30: the attributes of a constructed generator
SmartColorPinterestGenerator ==
    [canvas_width |-> canvas_width, canvas_height |-> canvas_height,
     top_image_height |-> top_image_height, banner_height |-> banner_height,
     bottom_image_height |-> canvas_height - top_image_height - banner_height,
     default_color |-> default_color, text_color |-> text_color]

\* Python's None, where a colour string may stand
None == <<"None">>
\* no bucket selected (best_color = None, line 66)
NoColor == <<>>

-----------------------------------------------------------------------------
(* detect_dominant_color *)

Max3(c) == IF c[1] >= c[2] /\ c[1] >= c[3] THEN c[1] ELSE IF c[2] >= c[3] THEN c[2] ELSE c[3]
Min3(c) == IF c[1] <= c[2] /\ c[1] <= c[3] THEN c[1] ELSE IF c[2] <= c[3] THEN c[2] ELSE c[3]
Min2(a, b) == IF a <= b THEN a ELSE b

\* line 53: the pixels the mask removes
NearWhite(p) == p[1] > 240 /\ p[2] > 240 /\ p[3] > 240

\* line 54
FilteredPixels(px) == SelectSeq(px, LAMBDA p : ~NearWhite(p))

\* line 60, on uint8: (v // 32) * 32 never leaves 0..224
Bucket(p) == <<(p[1] \div 32) * 32, (p[2] \div 32) * 32, (p[3] \div 32) * 32>>
GroupedPixels(px) == [i \in DOMAIN px |-> Bucket(px[i])]

LexLess(c, d) ==
    \/ c[1] < d[1]
    \/ c[1] = d[1] /\ c[2] < d[2]
    \/ c[1] = d[1] /\ c[2] = d[2] /\ c[3] < d[3]

RECURSIVE SortColors(_)
SortColors(S) ==
    IF S = {} THEN <<>>
    ELSE LET m == CHOOSE c \in S : \A d \in S \ {c} : LexLess(c, d)
         IN  <<m>> \o SortColors(S \ {m})

\* line 63: np.unique(axis=0) returns the distinct rows in lexicographic order
UniqueColors(grouped) == SortColors({grouped[i] : i \in DOMAIN grouped})
CountOf(grouped, c) == Cardinality({i \in DOMAIN grouped : grouped[i] = c})

\* line 78, times 1000: r*299 + g*587 + b*114
Luma1000(c) == c[1] * 299 + c[2] * 587 + c[3] * 114

\* line 75 with line 84: saturation > 0.2, saturation = (max - min) / max or 0.
\* (max - min) / max is the double nearest the quotient and 0.2 the double
\* nearest 1/5, so the comparison is the comparison of the rationals.
SaturationAbove02(c) == Max3(c) # 0 /\ 5 * (Max3(c) - Min3(c)) > Max3(c)

\* line 84: 80 < brightness < 200, brightness = luma1000 / 1000
BrightnessInWindow(c) == 80000 < Luma1000(c) /\ Luma1000(c) < 200000

EligibleNoSaturation(c) == BrightnessInWindow(c)
\* line 84, the first two conjuncts
Eligible(c) == BrightnessInWindow(c) /\ SaturationAbove02(c)

\* line 81, times 8925000 * n (n = len(filtered_pixels)), which makes every
\* term an integer for bucket channels (multiples of 32 up to 224):
\*   saturation * 0.6          -> n * 5355000 * (max - min) / max
\*   (brightness / 255) * 0.2  -> n * 7 * luma1000
\*   (count / n) * 0.2         -> 1785000 * count
\* Scores of two buckets of one image differ by 0 or by more than 1e-9, far
\* above the rounding of the doubles, so the order of the doubles is this order.
VibrancyScore(c, count, n) ==
    LET sat == IF Max3(c) = 0 THEN 0 ELSE (5355000 * (Max3(c) - Min3(c))) \div Max3(c)
    IN  n * (sat + 7 * Luma1000(c)) + 1785000 * count

\* lines 66-86: the loop over the buckets; best is [color, score]
RECURSIVE BestOf(_, _, _, _, _)
BestOf(unique, i, grouped, n, best) ==
    IF i > Len(unique) THEN best
    ELSE LET c == unique[i]
             score == VibrancyScore(c, CountOf(grouped, c), n)
         IN  IF Eligible(c) /\ score > best.score
             THEN BestOf(unique, i + 1, grouped, n, [color |-> c, score |-> score])
             ELSE BestOf(unique, i + 1, grouped, n, best)

BestColor(filtered) ==
    LET grouped == GroupedPixels(filtered)
    IN  BestOf(UniqueColors(grouped), 1, grouped, Len(filtered),
               [color |-> NoColor, score |-> 0]).color

\* lines 92-95: min(255, int(v * 1.2)); int(v * 1.2) = floor(12 v / 10) for
\* every bucket channel v (the doubles were replayed for all eight values)
EnhanceChannel(v) == Min2(255, (v * 12) \div 10)
Enhanced(c) == <<EnhanceChannel(c[1]), EnhanceChannel(c[2]), EnhanceChannel(c[3])>>

\* lines 98-103: boost = 120 / brightness, channel = min(255, int(v * boost));
\* int(v * boost) = floor(120000 v / luma1000) for every enhanced eligible
\* bucket (the doubles were replayed for all 332 of them)
Boosted(c) ==
    IF Luma1000(c) < 120000
    THEN <<Min2(255, (120000 * c[1]) \div Luma1000(c)),
           Min2(255, (120000 * c[2]) \div Luma1000(c)),
           Min2(255, (120000 * c[3]) \div Luma1000(c))>>
    ELSE c

\* lines 89-103
PostProcess(c) == Boosted(Enhanced(c))

HexDigits == <<"0", "1", "2", "3", "4", "5", "6", "7", "8", "9", "a", "b", "c", "d", "e", "f">>
UpperOf == [ch \in {"a", "b", "c", "d", "e", "f"} |->
              CASE ch = "a" -> "A" [] ch = "b" -> "B" [] ch = "c" -> "C"
                [] ch = "d" -> "D" [] ch = "e" -> "E" [] ch = "f" -> "F"]
\* a formatting without the .upper() of line 105
NotUppered(s) == s

\* str.upper on the characters a colour string can hold
Upper(s) == [i \in DOMAIN s |-> IF s[i] \in DOMAIN UpperOf THEN UpperOf[s[i]] ELSE s[i]]
\* {v:02x}
Format02x(v) == <<HexDigits[(v \div 16) + 1], HexDigits[(v % 16) + 1]>>
\* lines 105-106
HexColor(c) == Upper(<<"#">> \o Format02x(c[1]) \o Format02x(c[2]) \o Format02x(c[3]))

\* what the caller of detect_dominant_color gets: a value, or an exception
\* (raised); caught: the handler of line 108 ran; best: the winning bucket
Returned(value, best, caught) ==
    [raised |-> FALSE, caught |-> caught, value |-> value, best |-> best]

HandlerReraises == [raised |-> TRUE, caught |-> TRUE, value |-> None, best |-> NoColor]
\* lines 108-111: except Exception, then the return of line 111
ExceptionHandler == Returned(default_color, NoColor, TRUE)

\* lines 42-111.  weak: r * 299 on a numpy.uint8 (line 78).  NumPy 1.x promotes
\* the product to int64; NumPy >= 2 (NEP 50) keeps uint8 and raises
\* OverflowError, 299 being out of bounds for uint8, in the first iteration of
\* the loop, whatever the bucket.  The source pins no version (line 10).
DetectDominantColor(px, weak, flt) ==
    IF flt THEN ExceptionHandler
    ELSE LET filtered == FilteredPixels(px)
         IN  IF Len(filtered) = 0 THEN Returned(default_color, NoColor, FALSE)
             ELSE IF weak THEN ExceptionHandler
             ELSE LET best == BestColor(filtered)
                  IN  IF best # NoColor
                      THEN Returned(HexColor(PostProcess(best)), best, FALSE)
                      ELSE Returned(default_color, NoColor, FALSE)

-----------------------------------------------------------------------------
(* Analysed images *)

\* the pixel values the images of the model are made of
Palette == <<
    <<255, 255, 255>>,  \* white, masked
    <<250, 245, 241>>,  \* near white, masked
    <<128, 128, 128>>,  \* gray, bucket (128,128,128)
    <<0, 0, 0>>,        \* black
    <<170, 170, 150>>,  \* bucket (160,160,128): saturation exactly 0.2
    <<230, 40, 40>>,    \* vivid red, bucket (224,32,32): eligible, dark
    <<200, 120, 40>>,   \* orange, bucket (192,96,32): eligible
    <<250, 250, 100>>,  \* bright yellow, bucket (224,224,96): saturated, too bright
    <<200, 200, 200>>   \* light gray, bucket (192,192,192): brightness inside the window
>>

\* the non-decreasing index sequences of length n over lo..Len(Palette): one
\* image per multiset of pixels (line 63 sorts, so the order of the pixels of
\* an image has no effect)
RECURSIVE SortedIndexSeqs(_, _)
SortedIndexSeqs(n, lo) ==
    IF n = 0 THEN {<<>>}
    ELSE UNION {{<<i>> \o s : s \in SortedIndexSeqs(n - 1, i)} : i \in lo..Len(Palette)}

PixelArrays ==
    UNION {{[k \in DOMAIN s |-> Palette[s[k]]] : s \in SortedIndexSeqs(n, 1)} : n \in 1..MaxPixels}

-----------------------------------------------------------------------------
(* Inputs of create_color_matched_template *)

\* width and height of source images chosen for the cases of the layout:
\* 4:5 and 5:4 (ratio 0.8 and 1.25), 79:100 and 126:100 (0.79 and 1.26),
\* square, 16:9, scaled height equal to a band height (147x80 -> 400,
\* 245x194 -> 582), sizes whose scaled height the doubles round short
\* (35x23, 7x25, 21x38, the quadrants of 42x38), a scaled height of 0 (800x1)
SpecialSizes == {<<4, 5>>, <<5, 4>>, <<79, 100>>, <<126, 100>>, <<800, 800>>,
                 <<1600, 900>>, <<147, 80>>, <<245, 194>>, <<35, 23>>, <<7, 25>>,
                 <<21, 38>>, <<42, 38>>, <<800, 1>>}
Sizes == ((1..MaxDim) \X (1..MaxDim)) \cup SpecialSizes

\* the pixel content of the rendered images: all white; three gray and two
\* orange pixels (60% / 40%); vivid red
RenderPixelArrays == {
    <<Palette[1]>>,
    <<Palette[3], Palette[3], Palette[3], Palette[7], Palette[7]>>,
    <<Palette[6]>> }

\* a file Image.open cannot decode
Unreadable == [readable |-> FALSE, width |-> 0, height |-> 0, pixels |-> <<>>]
SourceFiles ==
    {Unreadable} \cup
    {[readable |-> TRUE, width |-> sz[1], height |-> sz[2], pixels |-> px] :
        sz \in Sizes, px \in RenderPixelArrays}

\* manual_color arguments: not given, "", "#112233", "red", "#123", "#GGGGGG"
ManualColors == {
    None,
    <<>>,
    <<"#", "1", "1", "2", "2", "3", "3">>,
    <<"r", "e", "d">>,
    <<"#", "1", "2", "3">>,
    <<"#", "G", "G", "G", "G", "G", "G">> }

\* rendered width, by draw.textbbox, of the words a title is made of, and of
\* the space between two words of a line
WordWidths == {400, 700}
SpaceWidth == 10
RECURSIVE SeqsUpTo(_, _)
SeqsUpTo(S, n) ==
    IF n = 0 THEN {<<>>}
    ELSE SeqsUpTo(S, n - 1) \cup {Append(s, x) : s \in {t \in SeqsUpTo(S, n - 1) : Len(t) = n - 1}, x \in S}
\* title.upper().split(), by the widths of the words
Titles == SeqsUpTo(WordWidths, MaxWords)
\* the titles of the renders that exercise the text layout: short, medium and
\* over-long words, up to MaxTitleWords of them
TextWordWidths == {200, 400, 700}
TextTitles == SeqsUpTo(TextWordWidths, MaxTitleWords)

-----------------------------------------------------------------------------
(* PIL.ImageColor.getrgb, which ImageDraw applies to every fill string *)

LowerHex == {HexDigits[i] : i \in DOMAIN HexDigits}
HexChars == LowerHex \cup {UpperOf[ch] : ch \in DOMAIN UpperOf}
Digits == {"0", "1", "2", "3", "4", "5", "6", "7", "8", "9"}
\* the colour names of the model's strings (PIL's colormap holds 140 more)
ColorNames == {<<"r", "e", "d">>, <<"w", "h", "i", "t", "e">>}

\* "#" followed by n hexadecimal digits of either case
IsHexForm(s, n) == Len(s) = n + 1 /\ s[1] = "#" /\ \A i \in 2..Len(s) : s[i] \in HexChars

\* rgba(d+,d+,d+,d+): the four groups are decimal digits only
IsRgbaForm(s) ==
    /\ Len(s) >= 13
    /\ SubSeq(s, 1, 5) = <<"r", "g", "b", "a", "(">>
    /\ s[Len(s)] = ")"
    /\ LET inner == SubSeq(s, 6, Len(s) - 1)
       IN  /\ \A i \in DOMAIN inner : inner[i] \in Digits \cup {","}
           /\ Cardinality({i \in DOMAIN inner : inner[i] = ","}) = 3
           /\ inner[1] # "," /\ inner[Len(inner)] # ","
           /\ \A i \in 1..(Len(inner) - 1) : ~(inner[i] = "," /\ inner[i + 1] = ",")

\* getrgb returns for a colour name, for #rgb, #rgba, #rrggbb, #rrggbbaa and
\* for the functional forms with integer arguments; for anything else it
\* raises ValueError("unknown color specifier")
AcceptedByPIL(s) ==
    \/ s \in ColorNames
    \/ \E n \in {3, 4, 6, 8} : IsHexForm(s, n)
    \/ IsRgbaForm(s)

-----------------------------------------------------------------------------
(* create_color_matched_template: colour, lines 152-158 *)

ManualIgnored(manual) == default_color
\* line 157: manual_color or self.default_color (None and "" are falsy)
ManualOrDefault(manual) == IF manual = None \/ manual = <<>> THEN default_color ELSE manual

-----------------------------------------------------------------------------
(* create_color_matched_template: layout, lines 163-226 *)

IsGridOpen(w, h) == 4 * h < 5 * w /\ 4 * w < 5 * h
\* lines 164-165: 0.8 <= width / height <= 1.25.  The quotient is the double
\* nearest width/height, 0.8 the double nearest 4/5 and 1.25 is exact, so for
\* image sizes the test is the test on the rationals (replayed on the doubles
\* for every size up to 2000 x 2000).
IsGrid(w, h) == 4 * h <= 5 * w /\ 4 * w <= 5 * h

\* template.py, lines 144-145 (JavaScript): aspectRatio > 0.8 && aspectRatio
\* < 1.25 on the same doubles
isGrid(w, h) == 4 * h < 5 * w /\ 4 * w < 5 * h

\* a source box <<left, upper, right, lower>> as Image.crop takes it: the
\* pixels (x, y) with left <= x < right and upper <= y < lower
NoBox == <<0, 0, 0, 0>>
BoxWidth(b) == b[3] - b[1]
BoxHeight(b) == b[4] - b[2]

TopSourceWhole(w, h, grid) == <<0, 0, w, h>>
\* lines 169-173 and 183
TopSource(w, h, grid) == IF grid THEN <<0, 0, w \div 2, h \div 2>> ELSE <<0, 0, w, h>>
\* lines 169-170, 176-177 and 184
BottomSource(w, h, grid) == IF grid THEN <<w \div 2, h \div 2, w, h>> ELSE <<0, 0, w, h>>

\* band sources for which int(735 / (bw / bh)) is one below floor(735 bh / bw):
\* the quotient bw / bh is rounded up and 735 bh / bw is a whole number.  The
\* table holds every such band of the sizes of the model (replayed on the
\* doubles).
RoundedShort == {<<7, 25>>, <<21, 19>>, <<21, 38>>, <<35, 23>>}

\* lines 188-190 and 207-209, for bw > 0 and bh > 0
ScaledHeight(bw, bh) ==
    IF <<bw, bh>> \in RoundedShort THEN ((canvas_width * bh) \div bw) - 1
    ELSE (canvas_width * bh) \div bw

\* a letterbox that pastes the scaled image at the top of the band
PasteAtTop(target, s) == 0

\* lines 202 and 224: paste_y
PasteY(target, s) == (target - s) \div 2

\* lines 188-202 and 207-224 for one band: the source box and the height of
\* the band.  width / height raises ZeroDivisionError on an empty box, and
\* Image.resize raises ValueError for a height of 0.
BandFit(src, target) ==
    IF BoxWidth(src) = 0 \/ BoxHeight(src) = 0
    THEN [error |-> "ZeroDivisionError", mode |-> "none", scaled_height |-> 0, offset |-> 0]
    ELSE LET s == ScaledHeight(BoxWidth(src), BoxHeight(src))
         IN  IF s < 1
             THEN [error |-> "ValueError", mode |-> "none", scaled_height |-> s, offset |-> 0]
             ELSE IF s >= target
             THEN [error |-> "", mode |-> "crop", scaled_height |-> s,
                   offset |-> (s - target) \div 2]
             ELSE [error |-> "", mode |-> "letterbox", scaled_height |-> s,
                   offset |-> PasteY(target, s)]

-----------------------------------------------------------------------------
(* The canvas: the operations applied to it, and the rows each one writes *)

NoCanvas == [allocated |-> FALSE, size |-> <<0, 0>>, ops |-> <<>>]
\* line 161
NewCanvas == [allocated |-> TRUE, size |-> <<canvas_width, canvas_height>>, ops |-> <<>>]

\* canvas.paste(image of size <<w, h>>, (x, y))
PasteOp(what, x, y, size, fit, src) ==
    [op |-> "paste", what |-> what, xy |-> <<x, y, x + size[1], y + size[2]>>,
     fill |-> None, fit |-> fit, src |-> src]
\* draw.rectangle([x0, y0, x1, y1], fill)
RectangleOp(what, x0, y0, x1, y1, fill) ==
    [op |-> "rectangle", what |-> what, xy |-> <<x0, y0, x1, y1>>,
     fill |-> fill, fit |-> <<>>, src |-> NoBox]

\* the canvas rows an operation writes: Image.paste writes the rows of the
\* pasted image, y <= row < y + height; ImageDraw.rectangle fills its
\* bounding box with both end points included, y0 <= row <= y1
RowsOf(o) ==
    IF o.op = "paste" THEN o.xy[2]..(Min2(o.xy[4], canvas_height) - 1)
    ELSE o.xy[2]..Min2(o.xy[4], canvas_height - 1)

-----------------------------------------------------------------------------
(* create_color_matched_template: banner, dots and text, lines 228-291 *)

dot_size == 4
dot_spacing == 12
margin == 20
line_height == 42
White == <<"w", "h", "i", "t", "e">>
\* the fill strings of lines 289 and 290
ShadowFill5 == <<"r", "g", "b", "a", "(", "0", ",", "0", ",", "0", ",", "0", ".", "5", ")">>
ShadowFill3 == <<"r", "g", "b", "a", "(", "0", ",", "0", ",", "0", ",", "0", ".", "3", ")">>

\* line 232
banner_y == top_image_height

\* lines 233-234
BannerOp(color) ==
    RectangleOp("banner", 0, banner_y, canvas_width, banner_y + banner_height, color)

\* range(margin, canvas_width - margin, dot_spacing), lines 242 and 247
DotXs ==
    [k \in 1..((canvas_width - margin - margin + dot_spacing - 1) \div dot_spacing) |->
        margin + dot_spacing * (k - 1)]
\* lines 242-244
TopDots ==
    [k \in DOMAIN DotXs |->
        RectangleOp("dot_top", DotXs[k], banner_y + 15,
                    DotXs[k] + dot_size, banner_y + 15 + dot_size, White)]
\* lines 247-250
BottomDots ==
    [k \in DOMAIN DotXs |->
        RectangleOp("dot_bottom", DotXs[k], banner_y + banner_height - 19,
                    DotXs[k] + dot_size, banner_y + banner_height - 15, White)]

RECURSIVE SumSeq(_)
SumSeq(s) == IF s = <<>> THEN 0 ELSE s[1] + SumSeq(Tail(s))
\* bbox[2] - bbox[0] of draw.textbbox for a line of words (lines 264-265, 283-284)
TextWidth(line) == IF line = <<>> THEN 0 ELSE SumSeq(line) + SpaceWidth * (Len(line) - 1)

\* line 258
max_width == canvas_width - 80

\* a loop that starts a new line before every word but the first
BreaksBeforeEveryWord(test_line, current_line) == current_line # <<>>

\* a test without "and current_line"
BreaksOnWidthAlone(test_line, current_line) == TextWidth(test_line) > max_width

\* line 267: if text_width > max_width and current_line
LineBreaks(test_line, current_line) == TextWidth(test_line) > max_width /\ current_line # <<>>

\* lines 262-274: the loop over the words, then the last line
RECURSIVE WrapFrom(_, _, _, _)
WrapFrom(words, i, done, current_line) ==
    IF i > Len(words)
    THEN IF current_line # <<>> THEN Append(done, current_line) ELSE done
    ELSE LET test_line == Append(current_line, words[i])
         IN  IF LineBreaks(test_line, current_line)
             THEN WrapFrom(words, i + 1, Append(done, current_line), <<words[i]>>)
             ELSE WrapFrom(words, i + 1, done, test_line)
WrapTitle(words) == WrapFrom(words, 1, <<>>, <<>>)

\* line 279
StartY(n) == banner_y + ((banner_height - n * line_height) \div 2)

\* draw.text((x, y), line, fill)
TextOp(what, x, y, line, fill) ==
    [op |-> "text", what |-> what, xy |-> <<x, y, x + TextWidth(line), y + line_height>>,
     fill |-> fill, fit |-> line, src |-> NoBox]

\* a loop that draws the foreground of a line before its two shadows
ForegroundFirst(ls, i) ==
    LET x == (canvas_width - TextWidth(ls[i])) \div 2
        y == StartY(Len(ls)) + ((i - 1) * line_height)
    IN  <<TextOp("text", x, y, ls[i], text_color),
          TextOp("shadow", x + 3, y + 3, ls[i], ShadowFill5),
          TextOp("shadow", x + 1, y + 1, ls[i], ShadowFill3)>>

\* lines 282-291: the draw.text calls of line i, in the order of the code
LineOps(ls, i) ==
    LET x == (canvas_width - TextWidth(ls[i])) \div 2
        y == StartY(Len(ls)) + ((i - 1) * line_height)
    IN  <<TextOp("shadow", x + 3, y + 3, ls[i], ShadowFill5),
          TextOp("shadow", x + 1, y + 1, ls[i], ShadowFill3),
          TextOp("text", x, y, ls[i], text_color)>>
RECURSIVE TextOpsFrom(_, _)
TextOpsFrom(ls, i) == IF i > Len(ls) THEN <<>> ELSE LineOps(ls, i) \o TextOpsFrom(ls, i + 1)
TextOps(ls) == TextOpsFrom(ls, 1)

\* the calls made before the first one whose fill getrgb rejects
RECURSIVE DrawnPrefix(_)
DrawnPrefix(ops) ==
    IF ops = <<>> \/ ~AcceptedByPIL(ops[1].fill) THEN <<>>
    ELSE <<ops[1]>> \o DrawnPrefix(Tail(ops))

-----------------------------------------------------------------------------
(* What create_color_matched_template hands to its caller *)

Pending == [status |-> "pending", error |-> "", canvas |-> NoCanvas, color |-> None]
Raised(error) == [status |-> "raised", error |-> error, canvas |-> NoCanvas, color |-> None]
\* line 293
ReturnedTuple(cv, color) == [status |-> "returned", error |-> "", canvas |-> cv, color |-> color]

NoAnalysis == [raised |-> FALSE, caught |-> FALSE, value |-> None, best |-> NoColor]

Raise(error) ==
    /\ pc' = "raised"
    /\ outcome' = Raised(error)

-----------------------------------------------------------------------------
(* load_font *)

\* lines 115-121
font_paths == <<"C:/Windows/Fonts/arialbd.ttf",
                "C:/Windows/Fonts/arial.ttf",
                "/System/Library/Fonts/Arial Bold.ttf",
                "/System/Library/Fonts/Arial.ttf",
                "/usr/share/fonts/truetype/dejavu/DejaVuSans-Bold.ttf">>

\* a candidate path on the machine: no such file ("missing"), a font file
\* ("ok"), a file ImageFont.truetype cannot load and raises OSError on
\* ("broken")
FontFileStates == {"missing", "ok", "broken"}
FontSets == [DOMAIN font_paths -> FontFileStates]

NoFont == [raised |-> FALSE, path |-> "", builtin |-> FALSE]
\* line 127
TrueType(path) == [raised |-> FALSE, path |-> path, builtin |-> FALSE]
\* line 132
LoadDefault == [raised |-> FALSE, path |-> "", builtin |-> TRUE]
FontError == [raised |-> TRUE, path |-> "", builtin |-> FALSE]

\* a loader without the try of line 125: the OSError leaves load_font
LoadErrorPropagates(rest) == FontError

\* lines 128-129: except: continue
OnLoadError(rest) == rest

\* lines 123-132, from candidate i on
RECURSIVE LoadFontFrom(_, _)
LoadFontFrom(fs, i) ==
    IF i > Len(font_paths) THEN LoadDefault
    ELSE IF fs[i] = "missing" THEN LoadFontFrom(fs, i + 1)
    ELSE IF fs[i] = "ok" THEN TrueType(font_paths[i])
    ELSE OnLoadError(LoadFontFrom(fs, i + 1))

\* lines 113-133
LoadFont(fs) == LoadFontFrom(fs, 1)

-----------------------------------------------------------------------------
(* The module-level functions create_smart_color_template and             *)
(* generate_color_matched_pinterest_template, and save_template           *)

Direct == "create_color_matched_template"
Smart == "create_smart_color_template"
Automation == "generate_color_matched_pinterest_template"
Callers == {Direct, Smart, Automation}

NoPath == [dir |-> "", name |-> "", title |-> <<>>, stamp |-> 0]
\* lines 312-314: f"smart_pinterest_{int(time.time())}.png"; lines 360-363:
\* output_dir joined with f"pinterest_{safe_title}_{int(time.time())}.png".
\* safe_title keeps the letters, digits, spaces, "-" and "_" of the title, cuts
\* it to 30 characters and writes "_" for each space: it maps several titles
\* to one name and never one title to two; the model keeps the words.
OutputPath(fn, ttl, now) ==
    IF fn = Smart THEN [dir |-> "", name |-> "smart_pinterest", title |-> <<>>, stamp |-> now]
    ELSE [dir |-> "generated_pins", name |-> "pinterest", title |-> ttl, stamp |-> now]

\* line 357: os.makedirs(output_dir, exist_ok=True)
MadeDirs(fn) ==
    IF fn = Automation
    THEN {[kind |-> "dir", path |-> [dir |-> "generated_pins", name |-> "", title |-> <<>>, stamp |-> 0]]}
    ELSE {}
\* line 297
SavedFile(path, image) == [kind |-> "file", path |-> path, image |-> image]
OutputFiles(fs) == {f \in fs : f.kind = "file"}

NoResult == [returned |-> FALSE, path |-> NoPath, color |-> None]
\* lines 322 and 370
WrapperReturn(path, color) == [returned |-> TRUE, path |-> path, color |-> color]

\* a decoder that takes any file for an image
DecodesAnyFile(src) == TRUE

\* lines 149-150: Image.open raises on a file it cannot identify or decode
Decodes(src) == src.readable

\* the locals of an invocation that does not exist
NoThread == [pc |-> "none"]

-----------------------------------------------------------------------------
(* A direct call of detect_dominant_color *)

\* lines 32-111
Detect ==
    /\ apc = "call"
    /\ analysis' = DetectDominantColor(pixels, numpy_weak_scalars, fault)
    /\ apc' = "returned"
    /\ UNCHANGED <<numpy_weak_scalars, pixels, fault>>
    /\ UNCHANGED renderVars
    /\ UNCHANGED <<wrapperVars, fontVars, threadVars>>
    /\ UNCHANGED <<generator, clock, schedulerVars>>

-----------------------------------------------------------------------------
(* create_color_matched_template, statement by statement *)

\* lines 149-150: Image.open(...).convert('RGB')
Open ==
    /\ pc = "start"
    /\ IF Decodes(source_img)
       THEN pc' = "opened" /\ UNCHANGED outcome
       ELSE Raise("UnidentifiedImageError")
    /\ UNCHANGED <<numpy_weak_scalars, source_img, title, use_auto_color, manual_color,
                   detected_color, detect_calls, is_grid, top_image, bottom_image,
                   canvas, lines>>
    /\ UNCHANGED analyzerVars
    /\ UNCHANGED <<wrapperVars, fontVars, threadVars>>
    /\ UNCHANGED <<generator, clock, schedulerVars>>

\* lines 152-158
ResolveColor ==
    /\ pc = "opened"
    /\ IF use_auto_color
       THEN \E flt \in BOOLEAN :
              LET res == DetectDominantColor(source_img.pixels, numpy_weak_scalars, flt)
              IN  /\ pixels' = source_img.pixels
                  /\ fault' = flt
                  /\ analysis' = res
                  /\ apc' = "returned"
                  /\ detect_calls' = detect_calls + 1
                  /\ IF res.raised
                     THEN Raise("Exception") /\ UNCHANGED detected_color
                     ELSE /\ detected_color' = res.value
                          /\ pc' = "colored"
                          /\ UNCHANGED outcome
       ELSE /\ detected_color' = ManualOrDefault(manual_color)
            /\ pc' = "colored"
            /\ UNCHANGED <<outcome, detect_calls>>
            /\ UNCHANGED analyzerVars
    /\ UNCHANGED <<numpy_weak_scalars, source_img, title, use_auto_color, manual_color,
                   is_grid, top_image, bottom_image, canvas, lines>>
    /\ UNCHANGED <<wrapperVars, fontVars, threadVars>>
    /\ UNCHANGED <<generator, clock, schedulerVars>>

\* lines 160-185
Layout ==
    /\ pc = "colored"
    /\ canvas' = NewCanvas
    /\ is_grid' = IsGrid(source_img.width, source_img.height)
    /\ top_image' = TopSource(source_img.width, source_img.height, is_grid')
    /\ bottom_image' = BottomSource(source_img.width, source_img.height, is_grid')
    /\ pc' = "planned"
    /\ UNCHANGED <<numpy_weak_scalars, source_img, title, use_auto_color, manual_color,
                   detected_color, detect_calls, lines, outcome>>
    /\ UNCHANGED analyzerVars
    /\ UNCHANGED <<wrapperVars, fontVars, threadVars>>
    /\ UNCHANGED <<generator, clock, schedulerVars>>

\* lines 187-204
TopBand ==
    /\ pc = "planned"
    /\ LET fit == BandFit(top_image, top_image_height)
       IN  IF fit.error # ""
           THEN Raise(fit.error) /\ UNCHANGED canvas
           ELSE /\ canvas' = [canvas EXCEPT !.ops = Append(@,
                        PasteOp("top", 0, 0, <<canvas_width, top_image_height>>, fit, top_image))]
                /\ pc' = "top"
                /\ UNCHANGED outcome
    /\ UNCHANGED <<numpy_weak_scalars, source_img, title, use_auto_color, manual_color,
                   detected_color, detect_calls, is_grid, top_image, bottom_image, lines>>
    /\ UNCHANGED analyzerVars
    /\ UNCHANGED <<wrapperVars, fontVars, threadVars>>
    /\ UNCHANGED <<generator, clock, schedulerVars>>

\* lines 206-226
BottomBand ==
    /\ pc = "top"
    /\ LET fit == BandFit(bottom_image, bottom_image_height)
           bottom_y == top_image_height + banner_height
       IN  IF fit.error # ""
           THEN Raise(fit.error) /\ UNCHANGED canvas
           ELSE /\ canvas' = [canvas EXCEPT !.ops = Append(@,
                        PasteOp("bottom", 0, bottom_y, <<canvas_width, bottom_image_height>>,
                                fit, bottom_image))]
                /\ pc' = "bottom"
                /\ UNCHANGED outcome
    /\ UNCHANGED <<numpy_weak_scalars, source_img, title, use_auto_color, manual_color,
                   detected_color, detect_calls, is_grid, top_image, bottom_image, lines>>
    /\ UNCHANGED analyzerVars
    /\ UNCHANGED <<wrapperVars, fontVars, threadVars>>
    /\ UNCHANGED <<generator, clock, schedulerVars>>

\* lines 228-234
Banner ==
    /\ pc = "bottom"
    /\ IF AcceptedByPIL(detected_color)
       THEN /\ canvas' = [canvas EXCEPT !.ops = Append(@, BannerOp(detected_color))]
            /\ pc' = "banner"
            /\ UNCHANGED outcome
       ELSE Raise("ValueError") /\ UNCHANGED canvas
    /\ UNCHANGED <<numpy_weak_scalars, source_img, title, use_auto_color, manual_color,
                   detected_color, detect_calls, is_grid, top_image, bottom_image, lines>>
    /\ UNCHANGED analyzerVars
    /\ UNCHANGED <<wrapperVars, fontVars, threadVars>>
    /\ UNCHANGED <<generator, clock, schedulerVars>>

\* lines 236-250
Dots ==
    /\ pc = "banner"
    /\ canvas' = [canvas EXCEPT !.ops = @ \o TopDots \o BottomDots]
    /\ pc' = "dots"
    /\ UNCHANGED <<numpy_weak_scalars, source_img, title, use_auto_color, manual_color,
                   detected_color, detect_calls, is_grid, top_image, bottom_image, lines,
                   outcome>>
    /\ UNCHANGED analyzerVars
    /\ UNCHANGED <<wrapperVars, fontVars, threadVars>>
    /\ UNCHANGED <<generator, clock, schedulerVars>>

\* lines 252-274 (the widths of the words stand for the metrics of the font)
WrapText ==
    /\ pc = "dots"
    /\ font' = LoadFont(fonts)
    /\ IF font'.raised
       THEN Raise("OSError") /\ UNCHANGED lines
       ELSE /\ lines' = WrapTitle(title)
            /\ pc' = "wrapped"
            /\ UNCHANGED outcome
    /\ UNCHANGED <<numpy_weak_scalars, source_img, title, use_auto_color, manual_color,
                   detected_color, detect_calls, is_grid, top_image, bottom_image, canvas>>
    /\ UNCHANGED analyzerVars
    /\ UNCHANGED <<wrapperVars, fonts, fpc, threadVars>>
    /\ UNCHANGED <<generator, clock, schedulerVars>>

\* lines 276-291: a draw.text whose fill getrgb rejects raises ValueError
DrawText ==
    /\ pc = "wrapped"
    /\ LET ops == TextOps(lines)
           drawn == DrawnPrefix(ops)
       IN  /\ canvas' = [canvas EXCEPT !.ops = @ \o drawn]
           /\ IF Len(drawn) = Len(ops)
              THEN pc' = "drawn" /\ UNCHANGED outcome
              ELSE Raise("ValueError")
    /\ UNCHANGED <<numpy_weak_scalars, source_img, title, use_auto_color, manual_color,
                   detected_color, detect_calls, is_grid, top_image, bottom_image, lines>>
    /\ UNCHANGED analyzerVars
    /\ UNCHANGED <<wrapperVars, fontVars, threadVars>>
    /\ UNCHANGED <<generator, clock, schedulerVars>>

\* line 293
Return ==
    /\ pc = "drawn"
    /\ outcome' = ReturnedTuple(canvas, detected_color)
    /\ pc' = "done"
    /\ UNCHANGED <<numpy_weak_scalars, source_img, title, use_auto_color, manual_color,
                   detected_color, detect_calls, is_grid, top_image, bottom_image, canvas,
                   lines>>
    /\ UNCHANGED analyzerVars
    /\ UNCHANGED <<wrapperVars, fontVars, threadVars>>
    /\ UNCHANGED <<generator, clock, schedulerVars>>

-----------------------------------------------------------------------------
(* The module-level functions around the render *)

\* lines 312-316 and 354-366: up to the call of create_color_matched_template
EnterWrapper ==
    /\ pc = "entry"
    /\ output_path' = OutputPath(caller, title, clock)
    /\ files' = files \cup MadeDirs(caller)
    /\ pc' = "start"
    /\ UNCHANGED <<numpy_weak_scalars, source_img, title, use_auto_color, manual_color,
                   detected_color, detect_calls, is_grid, top_image, bottom_image, canvas,
                   lines, outcome, caller, wrapper_result>>
    /\ UNCHANGED <<analyzerVars, fontVars, threadVars>>
    /\ UNCHANGED <<generator, clock, schedulerVars>>

\* lines 320-322 and 368-370, with save_template (lines 295-298); an
\* exception of the render leaves the function at the call, before them;
\* image.save replaces a file that is already at output_path
SaveTemplate ==
    /\ pc = "done"
    /\ caller # Direct
    /\ files' = {f \in files : f.path # output_path} \cup {SavedFile(output_path, outcome.canvas)}
    /\ wrapper_result' = WrapperReturn(output_path, outcome.color)
    /\ pc' = "saved"
    /\ UNCHANGED <<numpy_weak_scalars, source_img, title, use_auto_color, manual_color,
                   detected_color, detect_calls, is_grid, top_image, bottom_image, canvas,
                   lines, outcome, caller, output_path>>
    /\ UNCHANGED <<analyzerVars, fontVars, threadVars>>
    /\ UNCHANGED <<generator, clock, schedulerVars>>

-----------------------------------------------------------------------------
(* A direct call of load_font *)

\* lines 113-133
LoadFontCall ==
    /\ fpc = "call"
    /\ font' = LoadFont(fonts)
    /\ fpc' = "returned"
    /\ UNCHANGED <<numpy_weak_scalars, fonts>>
    /\ UNCHANGED <<analyzerVars, renderVars, wrapperVars, threadVars>>
    /\ UNCHANGED <<generator, clock, schedulerVars>>

-----------------------------------------------------------------------------
(* The clock the module-level functions read with time.time() *)

\* a second passes (lines 314 and 362 read whole seconds)
Tick ==
    /\ clock < MaxClock
    /\ clock' = clock + 1
    /\ UNCHANGED <<numpy_weak_scalars, generator>>
    /\ UNCHANGED <<analyzerVars, renderVars, wrapperVars, fontVars, threadVars, schedulerVars>>

-----------------------------------------------------------------------------
(* Two invocations on threads of one process.  Everything a call works on *)
(* is a local of its frame (source_img of line 150, canvas of line 161,   *)
(* the arrays of detect_dominant_color, ...), so each thread has its own; *)
(* the instance attributes of lines 20-30 are only read.  The variables   *)
(* hold the locals of the running thread, other those of the suspended one *)

Locals ==
    [apc |-> apc,
     pixels |-> pixels,
     fault |-> fault,
     analysis |-> analysis,
     pc |-> pc,
     source_img |-> source_img,
     title |-> title,
     use_auto_color |-> use_auto_color,
     manual_color |-> manual_color,
     detected_color |-> detected_color,
     detect_calls |-> detect_calls,
     is_grid |-> is_grid,
     top_image |-> top_image,
     bottom_image |-> bottom_image,
     canvas |-> canvas,
     lines |-> lines,
     outcome |-> outcome,
     caller |-> caller,
     output_path |-> output_path,
     wrapper_result |-> wrapper_result,
     fpc |-> fpc,
     font |-> font]

\* the locals of a call that has not started
FreshLocals(fn, src, ttl, auto, manual) ==
    [apc |-> "idle", pixels |-> <<>>, fault |-> FALSE, analysis |-> NoAnalysis,
     pc |-> IF fn = Direct THEN "start" ELSE "entry",
     source_img |-> src, title |-> ttl, use_auto_color |-> auto, manual_color |-> manual,
     detected_color |-> None, detect_calls |-> 0, is_grid |-> FALSE, top_image |-> NoBox,
     bottom_image |-> NoBox, canvas |-> NoCanvas, lines |-> <<>>, outcome |-> Pending,
     caller |-> fn, output_path |-> NoPath, wrapper_result |-> NoResult,
     fpc |-> "idle", font |-> NoFont]

\* a generator that keeps the canvas on the instance: the resumed thread
\* finds the canvas the other thread left
SharedCanvas(saved, running) == [saved EXCEPT !.canvas = running.canvas]

\* what a resumed thread finds in its frame: what it left there
Restored(saved, running) == saved

\* the call of a thread is over
Finished(l) == l.pc \in {"raised", "saved"} \/ (l.pc = "done" /\ l.caller = Direct)

\* the scheduler suspends the running thread and resumes the other one
Switch ==
    /\ other # NoThread
    /\ ~Finished(other)
    /\ current' = 3 - current
    /\ other' = Locals
    /\ LET r == Restored(other, Locals)
       IN
           /\ apc' = r.apc
           /\ pixels' = r.pixels
           /\ fault' = r.fault
           /\ analysis' = r.analysis
           /\ pc' = r.pc
           /\ source_img' = r.source_img
           /\ title' = r.title
           /\ use_auto_color' = r.use_auto_color
           /\ manual_color' = r.manual_color
           /\ detected_color' = r.detected_color
           /\ detect_calls' = r.detect_calls
           /\ is_grid' = r.is_grid
           /\ top_image' = r.top_image
           /\ bottom_image' = r.bottom_image
           /\ canvas' = r.canvas
           /\ lines' = r.lines
           /\ outcome' = r.outcome
           /\ caller' = r.caller
           /\ output_path' = r.output_path
           /\ wrapper_result' = r.wrapper_result
           /\ fpc' = r.fpc
           /\ font' = r.font
    /\ UNCHANGED <<numpy_weak_scalars, files, fonts>>
    /\ UNCHANGED <<generator, clock, schedulerVars>>

\* lines 135-293 as one function of the arguments and the machine: what the
\* call hands back when nothing else runs
RenderAlone(src, ttl, auto, manual, weak, flt, fs) ==
    IF ~Decodes(src) THEN Raised("UnidentifiedImageError")
    ELSE
    LET res == IF auto THEN DetectDominantColor(src.pixels, weak, flt) ELSE NoAnalysis
        color == IF auto THEN res.value ELSE ManualOrDefault(manual)
        grid == IsGrid(src.width, src.height)
        top == TopSource(src.width, src.height, grid)
        bottom == BottomSource(src.width, src.height, grid)
        tf == BandFit(top, top_image_height)
        bf == BandFit(bottom, bottom_image_height)
        ops == TextOps(WrapTitle(ttl))
    IN  IF res.raised THEN Raised("Exception")
        ELSE IF tf.error # "" THEN Raised(tf.error)
        ELSE IF bf.error # "" THEN Raised(bf.error)
        ELSE IF ~AcceptedByPIL(color) THEN Raised("ValueError")
        ELSE IF LoadFont(fs).raised THEN Raised("OSError")
        ELSE IF DrawnPrefix(ops) # ops THEN Raised("ValueError")
        ELSE ReturnedTuple(
                [NewCanvas EXCEPT !.ops =
                    <<PasteOp("top", 0, 0, <<canvas_width, top_image_height>>, tf, top),
                      PasteOp("bottom", 0, top_image_height + banner_height,
                              <<canvas_width, bottom_image_height>>, bf, bottom),
                      BannerOp(color)>> \o TopDots \o BottomDots \o ops],
                color)

-----------------------------------------------------------------------------
(* Specifications *)

IdleAnalyzer ==
    /\ apc = "idle"
    /\ pixels = <<>>
    /\ fault = FALSE
    /\ analysis = NoAnalysis

IdleRender ==
    /\ pc = "idle"
    /\ source_img = Unreadable
    /\ title = <<>>
    /\ use_auto_color = TRUE
    /\ manual_color = None
    /\ detected_color = None
    /\ detect_calls = 0
    /\ is_grid = FALSE
    /\ top_image = NoBox
    /\ bottom_image = NoBox
    /\ canvas = NoCanvas
    /\ lines = <<>>
    /\ outcome = Pending

IdleWrapper ==
    /\ caller = Direct
    /\ output_path = NoPath
    /\ wrapper_result = NoResult
    /\ files = {}

\* an Ubuntu machine: of the five candidates only DejaVu Sans Bold is there
LinuxFonts == [i \in DOMAIN font_paths |-> IF i = 5 THEN "ok" ELSE "missing"]
\* the font files of the machines the renders of the model run on
RenderFonts == {LinuxFonts, [i \in DOMAIN font_paths |-> "missing"]}

IdleFont ==
    /\ fonts = LinuxFonts
    /\ fpc = "idle"
    /\ font = NoFont

SingleThread ==
    /\ current = 1
    /\ other = NoThread

\* main of buffer.py is not running
NoCookies == [readable |-> FALSE, names |-> {}]
NoPresign == [url |-> "", key |-> ""]
IdleScheduler ==
    /\ bpc = "idle"
    /\ cookies_txt = NoCookies
    /\ cookie_header = {}
    /\ images = 0
    /\ chosen = 0
    /\ answer = <<>>
    /\ presign = NoPresign
    /\ media_url = ""
    /\ upload = "none"
    /\ net = <<>>

\* a constructed generator, at second 0, the scheduler script not running
Constructed ==
    /\ generator = SmartColorPinterestGenerator
    /\ clock = 0
    /\ IdleScheduler

\* one call of create_color_matched_template, directly or through one of the
\* module-level functions, for every request of the model
Init ==
    /\ numpy_weak_scalars \in BOOLEAN
    /\ IdleAnalyzer
    /\ caller \in Callers
    /\ pc = IF caller = Direct THEN "start" ELSE "entry"
    /\ source_img \in SourceFiles
    /\ title \in Titles
    /\ use_auto_color \in BOOLEAN
    /\ manual_color \in ManualColors
    /\ use_auto_color => manual_color \in {None, <<"#", "1", "1", "2", "2", "3", "3">>}
    \* line 367 passes neither use_auto_color nor manual_color
    /\ caller = Automation => use_auto_color /\ manual_color = None
    /\ detected_color = None
    /\ detect_calls = 0
    /\ is_grid = FALSE
    /\ top_image = NoBox
    /\ bottom_image = NoBox
    /\ canvas = NoCanvas
    /\ lines = <<>>
    /\ outcome = Pending
    /\ output_path = NoPath
    /\ wrapper_result = NoResult
    /\ files = {}
    /\ fonts \in RenderFonts
    /\ fpc = "idle"
    /\ font = NoFont
    /\ SingleThread
    /\ Constructed

Next ==
    \/ EnterWrapper
    \/ Open
    \/ ResolveColor
    \/ Layout
    \/ TopBand
    \/ BottomBand
    \/ Banner
    \/ Dots
    \/ WrapText
    \/ DrawText
    \/ Return
    \/ SaveTemplate

Spec == Init /\ [][Next]_vars

\* one call of detect_dominant_color, for every image of the model
InitColor ==
    /\ numpy_weak_scalars \in BOOLEAN
    /\ apc = "call"
    /\ pixels \in PixelArrays
    /\ fault \in BOOLEAN
    /\ analysis = NoAnalysis
    /\ IdleRender
    /\ IdleWrapper
    /\ IdleFont
    /\ SingleThread
    /\ Constructed

NextColor == Detect

SpecColor == InitColor /\ [][NextColor]_vars

\* the renders that exercise the text layout: one 16:9 source, automatic or
\* default colour, every title of TextTitles
InitText ==
    /\ numpy_weak_scalars \in BOOLEAN
    /\ IdleAnalyzer
    /\ caller \in {Direct, Smart}
    /\ pc = IF caller = Direct THEN "start" ELSE "entry"
    /\ source_img = [readable |-> TRUE, width |-> 1600, height |-> 900, pixels |-> <<Palette[6]>>]
    /\ title \in TextTitles
    /\ use_auto_color \in BOOLEAN
    /\ manual_color = None
    /\ detected_color = None
    /\ detect_calls = 0
    /\ is_grid = FALSE
    /\ top_image = NoBox
    /\ bottom_image = NoBox
    /\ canvas = NoCanvas
    /\ lines = <<>>
    /\ outcome = Pending
    /\ output_path = NoPath
    /\ wrapper_result = NoResult
    /\ files = {}
    /\ fonts \in RenderFonts
    /\ fpc = "idle"
    /\ font = NoFont
    /\ SingleThread
    /\ Constructed

SpecText == InitText /\ [][Next]_vars

\* the requests of the concurrent renders: a 16:9 source, a 4:5 grid and an
\* unreadable file, without and with a title, automatic or manual colour
ConcurrentSources ==
    {Unreadable,
     [readable |-> TRUE, width |-> 1600, height |-> 900, pixels |-> <<Palette[6]>>],
     [readable |-> TRUE, width |-> 4, height |-> 5, pixels |-> <<Palette[3], Palette[3], Palette[3], Palette[7], Palette[7]>>]}
ConcurrentRequests(fns) ==
    {FreshLocals(fn, src, ttl, auto, IF auto THEN None ELSE <<"#", "1", "1", "2", "2", "3", "3">>) :
        fn \in fns, src \in ConcurrentSources, ttl \in {<<>>, <<400>>}, auto \in BOOLEAN}

\* two calls on two threads, the first one running
InitConcurrent ==
    /\ Constructed
    /\ numpy_weak_scalars \in BOOLEAN
    /\ files = {}
    /\ fonts = LinuxFonts
    /\ current = 1
    /\ other \in ConcurrentRequests({Direct})
    /\ \E r \in ConcurrentRequests({Direct, Smart}) :
          /\ apc = r.apc
          /\ pixels = r.pixels
          /\ fault = r.fault
          /\ analysis = r.analysis
          /\ pc = r.pc
          /\ source_img = r.source_img
          /\ title = r.title
          /\ use_auto_color = r.use_auto_color
          /\ manual_color = r.manual_color
          /\ detected_color = r.detected_color
          /\ detect_calls = r.detect_calls
          /\ is_grid = r.is_grid
          /\ top_image = r.top_image
          /\ bottom_image = r.bottom_image
          /\ canvas = r.canvas
          /\ lines = r.lines
          /\ outcome = r.outcome
          /\ caller = r.caller
          /\ output_path = r.output_path
          /\ wrapper_result = r.wrapper_result
          /\ fpc = r.fpc
          /\ font = r.font

NextConcurrent == Next \/ Switch

SpecConcurrent == InitConcurrent /\ [][NextConcurrent]_vars

\* two calls of the module-level functions on two threads, each without an
\* explicit output_path, while the clock runs
InitPaths ==
    /\ Constructed
    /\ numpy_weak_scalars \in BOOLEAN
    /\ files = {}
    /\ fonts = LinuxFonts
    /\ current = 1
    /\ \E fn \in {Smart, Automation}, ttl \in {<<>>, <<400>>} :
          other = FreshLocals(fn, [readable |-> TRUE, width |-> 1600, height |-> 900, pixels |-> <<Palette[6]>>], ttl, TRUE, None)
    /\ \E fn \in {Smart, Automation}, ttl \in {<<>>, <<400>>} :
          LET r == FreshLocals(fn, [readable |-> TRUE, width |-> 1600, height |-> 900, pixels |-> <<Palette[6]>>], ttl, TRUE, None)
          IN
             /\ apc = r.apc
             /\ pixels = r.pixels
             /\ fault = r.fault
             /\ analysis = r.analysis
             /\ pc = r.pc
             /\ source_img = r.source_img
             /\ title = r.title
             /\ use_auto_color = r.use_auto_color
             /\ manual_color = r.manual_color
             /\ detected_color = r.detected_color
             /\ detect_calls = r.detect_calls
             /\ is_grid = r.is_grid
             /\ top_image = r.top_image
             /\ bottom_image = r.bottom_image
             /\ canvas = r.canvas
             /\ lines = r.lines
             /\ outcome = r.outcome
             /\ caller = r.caller
             /\ output_path = r.output_path
             /\ wrapper_result = r.wrapper_result
             /\ fpc = r.fpc
             /\ font = r.font

NextPaths == Next \/ Switch \/ Tick

SpecPaths == InitPaths /\ [][NextPaths]_vars

\* one call of load_font, for every state of the five candidate files
InitFont ==
    /\ numpy_weak_scalars \in BOOLEAN
    /\ IdleAnalyzer
    /\ IdleRender
    /\ IdleWrapper
    /\ fonts \in FontSets
    /\ fpc = "call"
    /\ font = NoFont
    /\ SingleThread
    /\ Constructed

NextFont == LoadFontCall

SpecFont == InitFont /\ [][NextFont]_vars

-----------------------------------------------------------------------------
(* buffer.py: the scheduler script.  net is the log of the calls that reach  *)
(* the scheduling service or S3, each with its argument and whether the call *)
(* returned (ok) or raised                                                   *)

\* lines 29-32
COOKIE_WHITELIST ==
    {"buffer_session", "bufferapp_ci_session", "AWSALB", "AWSALBCORS",
     "AWSALBTG", "AWSALBTGCORS", "__stripe_mid", "__stripe_sid"}

\* cookies.txt: unreadable, or a jar of any of three names, one of them not
\* whitelisted (parse_cookies_txt, lines 36-53)
CookieFiles ==
    {NoCookies} \cup {[readable |-> TRUE, names |-> n] : n \in SUBSET {"buffer_session", "AWSALB", "_ga"}}

\* lines 55-62: the header holds the whitelisted names of the jar; an empty
\* header raises RuntimeError
build_cookie_header(allcookies) == allcookies \cap COOKIE_WHITELIST

\* lines 77 and 119: the status codes that raise HTTPError, among those the
\* service answers with in the model
StatusCodes == {200, 204, 301, 403, 500}
HTTPErrorStatus(status_code) == status_code >= 400

\* lines 121-127: the JSON of the pre-sign answer; out is data.s3PreSignedURL,
\* a dict with any of the fields url and key (the empty one for a missing or
\* empty out)
PresignResponses ==
    {[status_code |-> st, errors |-> e, out |-> o] :
        st \in {200, 403}, e \in BOOLEAN,
        o \in UNION {[d -> {"", "a", "b"}] : d \in SUBSET {"url", "key"}}}
graphql_presign_returns(r) ==
    /\ ~HTTPErrorStatus(r.status_code)
    /\ ~r.errors
    /\ DOMAIN r.out # {}
    /\ "url" \in DOMAIN r.out
    /\ "key" \in DOMAIN r.out

\* lines 130-134: open or requests.put raises, or S3 answers with a status
S3Outcomes ==
    {[raised |-> TRUE, status_code |-> 0]} \cup {[raised |-> FALSE, status_code |-> st] : st \in StatusCodes}
s3_put_returns(o) == ~o.raised /\ o.status_code \div 100 = 2

\* lines 143-147: the result of the finalize call; "" is a missing or empty
\* field
FinalizeResponses ==
    {[status_code |-> st, location |-> l, details |-> d] :
        st \in {200, 500}, l \in {"", "https://media/1"}, d \in {"", "https://media/2"}}
NeverMissing(location) == FALSE
\* line 144
Location(res) == IF res.location # "" THEN res.location ELSE res.details
\* line 145
Missing(location) == location = ""

\* line 314: input("> ").strip().lower() on the answers of the model
Answers == {<<"y">>, <<"Y">>, <<" ", "y", " ">>, <<"n">>, <<"N">>, <<>>, <<"y", "e", "s">>}
RECURSIVE Strip(_)
Strip(s) ==
    IF s = <<>> THEN s
    ELSE IF Head(s) = " " THEN Strip(Tail(s))
    ELSE IF s[Len(s)] = " " THEN Strip(SubSeq(s, 1, Len(s) - 1))
    ELSE s
Lower(s) == [i \in DOMAIN s |-> IF s[i] = "Y" THEN "y" ELSE IF s[i] = "N" THEN "n" ELSE s[i]]
NotRefused(a) == Lower(Strip(a)) # <<"n">>
Confirmed(a) == Lower(Strip(a)) = <<"y">>

\* lines 272-277
LoadCookies ==
    /\ bpc = "cookies"
    /\ LET header == build_cookie_header(cookies_txt.names)
       IN  IF ~cookies_txt.readable \/ header = {}
           THEN cookie_header' = {} /\ bpc' = "end"
           ELSE cookie_header' = header /\ bpc' = "slots"
    /\ UNCHANGED <<cookies_txt, images, chosen, answer, presign, media_url, upload, net>>
    /\ UNCHANGED <<numpy_weak_scalars, generator, clock>>
    /\ UNCHANGED <<analyzerVars, renderVars, wrapperVars, fontVars, threadVars>>

\* lines 280-286 with get_slots (lines 81-87) and composer_proxy (lines
\* 65-79): every exception is caught and main goes on
GetSlots ==
    /\ bpc = "slots"
    /\ \E status_code \in StatusCodes :
          net' = Append(net, [req |-> "get_slots", arg |-> "", ok |-> ~HTTPErrorStatus(status_code)])
    /\ bpc' = "images"
    /\ UNCHANGED <<cookies_txt, cookie_header, images, chosen, answer, presign, media_url, upload>>
    /\ UNCHANGED <<numpy_weak_scalars, generator, clock>>
    /\ UNCHANGED <<analyzerVars, renderVars, wrapperVars, fontVars, threadVars>>

\* lines 288-294: the supported files of the images directory
ListImages ==
    /\ bpc = "images"
    /\ \E n \in 0..MaxImages :
          /\ images' = n
          /\ bpc' = IF n = 0 THEN "end" ELSE "menu"
    /\ UNCHANGED <<cookies_txt, cookie_header, chosen, answer, presign, media_url, upload, net>>
    /\ UNCHANGED <<numpy_weak_scalars, generator, clock>>
    /\ UNCHANGED <<analyzerVars, renderVars, wrapperVars, fontVars, threadVars>>

\* lines 296-299 with display_images_menu (lines 171-193): the menu asks
\* until the entry is 'q' (0 here) or the number of an image
ChooseImage ==
    /\ bpc = "menu"
    /\ \E c \in 0..images :
          /\ chosen' = c
          /\ bpc' = IF c = 0 THEN "end" ELSE "confirm"
    /\ UNCHANGED <<cookies_txt, cookie_header, images, answer, presign, media_url, upload, net>>
    /\ UNCHANGED <<numpy_weak_scalars, generator, clock>>
    /\ UNCHANGED <<analyzerVars, renderVars, wrapperVars, fontVars, threadVars>>

\* lines 301-316: the prompts for the details, then the confirmation
Confirm ==
    /\ bpc = "confirm"
    /\ \E a \in Answers :
          /\ answer' = a
          /\ bpc' = IF Confirmed(a) THEN "presign" ELSE "end"
    /\ UNCHANGED <<cookies_txt, cookie_header, images, chosen, presign, media_url, upload, net>>
    /\ UNCHANGED <<numpy_weak_scalars, generator, clock>>
    /\ UNCHANGED <<analyzerVars, renderVars, wrapperVars, fontVars, threadVars>>

\* line 153 with graphql_presign (lines 90-127); an exception leaves
\* upload_image_to_buffer and is caught at line 325
Presign ==
    /\ bpc = "presign"
    /\ \E r \in PresignResponses :
          /\ net' = Append(net, [req |-> "graphql_presign", arg |-> "", ok |-> graphql_presign_returns(r)])
          /\ IF graphql_presign_returns(r)
             THEN /\ presign' = [url |-> r.out["url"], key |-> r.out["key"]]
                  /\ upload' = upload
                  /\ bpc' = "put"
             ELSE /\ presign' = presign
                  /\ upload' = "raised"
                  /\ bpc' = "end"
    /\ UNCHANGED <<cookies_txt, cookie_header, images, chosen, answer, media_url>>
    /\ UNCHANGED <<numpy_weak_scalars, generator, clock>>
    /\ UNCHANGED <<analyzerVars, renderVars, wrapperVars, fontVars, threadVars>>

\* line 155 with s3_put (lines 130-134); requests.put raises for an empty URL
S3Put ==
    /\ bpc = "put"
    /\ \E o \in S3Outcomes :
          /\ presign.url = "" => o.raised
          /\ net' = Append(net, [req |-> "s3_put", arg |-> presign.url, ok |-> s3_put_returns(o)])
          /\ upload' = IF s3_put_returns(o) THEN upload ELSE "raised"
          /\ bpc' = IF s3_put_returns(o) THEN "finalize" ELSE "end"
    /\ UNCHANGED <<cookies_txt, cookie_header, images, chosen, answer, presign, media_url>>
    /\ UNCHANGED <<numpy_weak_scalars, generator, clock>>
    /\ UNCHANGED <<analyzerVars, renderVars, wrapperVars, fontVars, threadVars>>

\* lines 157-159 with finalize_upload (lines 137-147) and composer_proxy
Finalize ==
    /\ bpc = "finalize"
    /\ \E res \in FinalizeResponses :
          LET returns == ~HTTPErrorStatus(res.status_code) /\ ~Missing(Location(res))
          IN  /\ net' = Append(net, [req |-> "finalize_upload", arg |-> presign.key, ok |-> returns])
              /\ IF returns
                 THEN /\ media_url' = Location(res)
                      /\ upload' = "returned"
                      /\ bpc' = "schedule"
                 ELSE /\ media_url' = media_url
                      /\ upload' = "raised"
                      /\ bpc' = "end"
    /\ UNCHANGED <<cookies_txt, cookie_header, images, chosen, answer, presign>>
    /\ UNCHANGED <<numpy_weak_scalars, generator, clock>>
    /\ UNCHANGED <<analyzerVars, renderVars, wrapperVars, fontVars, threadVars>>

\* lines 320-326 with schedule_pin (lines 218-264)
SchedulePin ==
    /\ bpc = "schedule"
    /\ \E status_code \in StatusCodes :
          net' = Append(net, [req |-> "schedule_pin", arg |-> media_url, ok |-> ~HTTPErrorStatus(status_code)])
    /\ bpc' = "end"
    /\ UNCHANGED <<cookies_txt, cookie_header, images, chosen, answer, presign, media_url, upload>>
    /\ UNCHANGED <<numpy_weak_scalars, generator, clock>>
    /\ UNCHANGED <<analyzerVars, renderVars, wrapperVars, fontVars, threadVars>>

\* one run of main, for every cookies.txt of the model
InitBuffer ==
    /\ numpy_weak_scalars \in BOOLEAN
    /\ IdleAnalyzer
    /\ IdleRender
    /\ IdleWrapper
    /\ IdleFont
    /\ SingleThread
    /\ generator = SmartColorPinterestGenerator
    /\ clock = 0
    /\ bpc = "cookies"
    /\ cookies_txt \in CookieFiles
    /\ cookie_header = {}
    /\ images = 0
    /\ chosen = 0
    /\ answer = <<>>
    /\ presign = NoPresign
    /\ media_url = ""
    /\ upload = "none"
    /\ net = <<>>

NextBuffer ==
    \/ LoadCookies
    \/ GetSlots
    \/ ListImages
    \/ ChooseImage
    \/ Confirm
    \/ Presign
    \/ S3Put
    \/ Finalize
    \/ SchedulePin

SpecBuffer == InitBuffer /\ [][NextBuffer]_vars

-----------------------------------------------------------------------------
(* Properties *)

\* the channel values of a colour string "#RRGGBB"
HexValue(ch) == (CHOOSE i \in DOMAIN HexDigits : Upper(<<HexDigits[i]>>) = Upper(<<ch>>)) - 1
ChannelsOf(s) ==
    <<16 * HexValue(s[2]) + HexValue(s[3]),
      16 * HexValue(s[4]) + HexValue(s[5]),
      16 * HexValue(s[6]) + HexValue(s[7])>>

\* the operations of one kind applied to a canvas, and the rows they wrote
OpsOf(cv, what) == {i \in DOMAIN cv.ops : cv.ops[i].what = what}
RowsWrittenBy(cv, what) == UNION {RowsOf(cv.ops[i]) : i \in OpsOf(cv, what)}
BannerFills(cv) == {cv.ops[i].fill : i \in OpsOf(cv, "banner")}
SourceWidth == source_img.width
SourceHeight == source_img.height

\* C1: in every canvas handed to the caller the top band, the banner and the
\* bottom band tile the 1102 rows: together they cover every row, the top
\* band starts at row 0, the bottom band at row top_image_height +
\* banner_height, and no row is written both by the banner rectangle and by
\* the paste of a band.
C1_BandsTileCanvas ==
    outcome.status = "returned" =>
        LET top == RowsWrittenBy(outcome.canvas, "top")
            ban == RowsWrittenBy(outcome.canvas, "banner")
            bot == RowsWrittenBy(outcome.canvas, "bottom")
        IN  /\ top \cup ban \cup bot = 0..(canvas_height - 1)
            /\ \A r \in top : r >= 0
            /\ 0 \in top
            /\ \A r \in bot : r >= top_image_height + banner_height
            /\ (top_image_height + banner_height) \in bot
            /\ top \cap ban = {}
            /\ bot \cap ban = {}
            /\ top \cap bot = {}

\* C2: once the layout is decided, the image is a grid exactly when its
\* width/height ratio lies in the closed interval [0.8, 1.25]: a ratio of
\* exactly 4:5 or 5:4 is a grid, ratios 0.79 and 1.26 are not.
C2_GridClosedInterval ==
    canvas.allocated =>
        /\ is_grid <=> (80 * SourceHeight <= 100 * SourceWidth
                        /\ 100 * SourceWidth <= 125 * SourceHeight)
        /\ (5 * SourceWidth = 4 * SourceHeight \/ 4 * SourceWidth = 5 * SourceHeight) => is_grid
        /\ (100 * SourceWidth = 79 * SourceHeight \/ 100 * SourceWidth = 126 * SourceHeight)
              => ~is_grid
C2_Witness ==
    /\ canvas.allocated
    /\ 5 * SourceWidth = 4 * SourceHeight
    /\ is_grid

BoxesShareAPixel(a, b) ==
    /\ \E x \in a[1]..(a[3] - 1) : x \in b[1]..(b[3] - 1)
    /\ \E y \in a[2]..(a[4] - 1) : y \in b[2]..(b[4] - 1)

\* C3: in grid mode the top band is sourced from the top-left quadrant, which
\* starts at (0,0) and ends at the middle (w/2, h/2, rounded down) of the
\* image, the bottom band from the bottom-right quadrant, which starts at that
\* middle and ends at (w,h), and the two quadrants share no source pixel; in
\* non-grid mode both bands are sourced from the whole image (0,0)-(w,h).
C3_BandSources ==
    canvas.allocated =>
        /\ is_grid =>
            /\ top_image[1] = 0 /\ top_image[2] = 0
            /\ 2 * top_image[3] <= SourceWidth /\ SourceWidth <= 2 * top_image[3] + 1
            /\ 2 * top_image[4] <= SourceHeight /\ SourceHeight <= 2 * top_image[4] + 1
            /\ bottom_image[1] = top_image[3] /\ bottom_image[2] = top_image[4]
            /\ bottom_image[3] = SourceWidth /\ bottom_image[4] = SourceHeight
            /\ ~BoxesShareAPixel(top_image, bottom_image)
        /\ ~is_grid =>
            /\ top_image = <<0, 0, SourceWidth, SourceHeight>>
            /\ bottom_image = top_image
C3_Witness ==
    /\ canvas.allocated
    /\ is_grid
    /\ SourceWidth = 800 /\ SourceHeight = 800
    /\ top_image = <<0, 0, 400, 400>>
    /\ bottom_image = <<400, 400, 800, 800>>

\* the image holds no masked pixel and exactly two buckets: a desaturated
\* one (saturation <= 0.2) with 60% of the pixels and an eligible one with 40%
SixtyForty(px, gray, sat) ==
    LET grouped == GroupedPixels(px)
    IN  /\ FilteredPixels(px) = px
        /\ {grouped[i] : i \in DOMAIN grouped} = {gray, sat}
        /\ gray # sat
        /\ ~SaturationAbove02(gray)
        /\ Eligible(sat)
        /\ 5 * CountOf(grouped, gray) = 3 * Len(px)
        /\ 5 * CountOf(grouped, sat) = 2 * Len(px)

\* C4: for an image that is 60% a desaturated gray bucket and 40% a
\* saturated eligible bucket, detect_dominant_color returns the colour
\* derived from the saturated bucket, never one derived from the gray and
\* never the default.
C4_SaturatedPatchWins ==
    (apc = "returned" /\ ~fault) =>
        \A i, j \in DOMAIN pixels :
            SixtyForty(pixels, Bucket(pixels[i]), Bucket(pixels[j])) =>
                /\ analysis.best = Bucket(pixels[j])
                /\ analysis.value = HexColor(PostProcess(Bucket(pixels[j])))
                /\ analysis.value # default_color

AllGray(px) == \A i \in DOMAIN px : px[i][1] = px[i][2] /\ px[i][2] = px[i][3]

\* C5: for every image all of whose pixels have R = G = B,
\* detect_dominant_color returns exactly the default colour #FF9800.
C5_GrayGivesDefault ==
    (apc = "returned" /\ AllGray(pixels)) =>
        /\ ~analysis.raised
        /\ analysis.value = default_color
C5_Witness ==
    /\ apc = "returned"
    /\ AllGray(pixels)
    /\ \E i \in DOMAIN pixels : pixels[i] = <<128, 128, 128>>
    /\ ~fault
    /\ ~numpy_weak_scalars
    /\ ~analysis.caught
    /\ analysis.value = default_color

\* C6: whenever a bucket wins, the colour detect_dominant_color emits for it
\* has luma (299 R + 587 G + 114 B) / 1000 of at least 120.
C6_EmittedLumaAtLeast120 ==
    (apc = "returned" /\ analysis.best # NoColor) =>
        Luma1000(ChannelsOf(analysis.value)) >= 120000

EligibleBuckets(px) ==
    LET grouped == GroupedPixels(FilteredPixels(px))
    IN  {c \in {grouped[i] : i \in DOMAIN grouped} : Eligible(c)}

\* C7: the bucket detect_dominant_color selects is an eligible bucket of the
\* image with the highest vibrancy score among the eligible ones, and the
\* default colour is returned exactly when no bucket of the image is eligible.
C7_BestEligibleOrDefault ==
    (apc = "returned" /\ ~fault) =>
        LET filtered == FilteredPixels(pixels)
            grouped == GroupedPixels(filtered)
            scoreOf(c) == VibrancyScore(c, CountOf(grouped, c), Len(filtered))
        IN  /\ analysis.best # NoColor =>
                /\ analysis.best \in EligibleBuckets(pixels)
                /\ \A c \in EligibleBuckets(pixels) : scoreOf(analysis.best) >= scoreOf(c)
            /\ (analysis.value = default_color) <=> (EligibleBuckets(pixels) = {})

\* C8: detect_dominant_color never raises to its caller, and it returns the
\* default colour when an exception occurred inside it and when every pixel
\* of the image is near white.
C8_NeverRaises ==
    apc = "returned" =>
        /\ ~analysis.raised
        /\ (fault \/ analysis.caught \/ FilteredPixels(pixels) = <<>>) =>
              analysis.value = default_color
C8_Witness ==
    /\ apc = "returned"
    /\ fault
    /\ analysis.caught
    /\ ~analysis.raised
    /\ analysis.value = default_color

\* C9: the colour handed to the caller is the colour the banner was filled
\* with, in both colour modes; with use_auto_color false and a manual colour
\* given, it is exactly that manual colour and detect_dominant_color was not
\* called.
C9_ManualColorUsed ==
    /\ ~use_auto_color => (detect_calls = 0 /\ apc = "idle")
    /\ outcome.status = "returned" =>
        /\ BannerFills(outcome.canvas) = {outcome.color}
        /\ (~use_auto_color /\ manual_color # None /\ manual_color # <<>>) =>
              outcome.color = manual_color
C9_Witness ==
    /\ outcome.status = "returned"
    /\ ~use_auto_color
    /\ manual_color = <<"#", "1", "1", "2", "2", "3", "3">>
    /\ outcome.color = manual_color
    /\ SourceWidth = 1600 /\ SourceHeight = 900
    /\ top_image = bottom_image

\* C10: with use_auto_color false and a manual colour string that is not of
\* the form #RRGGBB (the empty string included), the render fails: no other
\* colour is put in the place of the requested one, no banner is painted and
\* nothing is handed to the caller.
C10_MalformedManualFails ==
    (~use_auto_color /\ manual_color # None /\ ~IsHexForm(manual_color, 6)) =>
        /\ detected_color \in {None, manual_color}
        /\ BannerFills(canvas) = {}
        /\ outcome.status # "returned"

\* C11: a source file that cannot be decoded fails the whole render:
\* create_color_matched_template raises at Image.open, before a canvas is
\* allocated, it hands no canvas to its caller, and the module-level
\* functions create_smart_color_template and
\* generate_color_matched_pinterest_template neither write an output file
\* nor return
C11_UnreadableSourceFailsRender ==
    ~source_img.readable =>
        /\ pc \in {"entry", "start", "raised"}
        /\ ~canvas.allocated
        /\ outcome.status # "returned"
        /\ outcome.canvas = NoCanvas
        /\ pc = "raised" => outcome = Raised("UnidentifiedImageError")
        /\ OutputFiles(files) = {}
        /\ ~wrapper_result.returned

\* the automation function has made its output directory and the render
\* has raised on the unreadable file
C11_Witness ==
    /\ ~source_img.readable
    /\ caller = Automation
    /\ pc = "raised"
    /\ files # {}

\* C12: every render that returns hands back a canvas of exactly 735 x 1102
\* pixels together with a colour string of the form #RRGGBB ("#" and six
\* hexadecimal digits), whichever colour mode was used and whatever the
\* dimensions of the source
C12_ReturnsCanvasAndHexColor ==
    outcome.status = "returned" =>
        /\ outcome.canvas.allocated
        /\ outcome.canvas.size = <<735, 1102>>
        /\ IsHexForm(outcome.color, 6)

\* the paste operations of a canvas that took the crop / the letterbox branch,
\* and the height of the band an operation fills
Pastes(cv, mode) == {i \in DOMAIN cv.ops : cv.ops[i].op = "paste" /\ cv.ops[i].fit.mode = mode}
BandHeight(o) == o.xy[4] - o.xy[2]

\* C13: crop to fill: the source of a band is scaled to width 735 and height
\* s = floor(735 * srcH / srcW); when s is at least the height t of the band,
\* the band receives exactly the rows [c, c + t) of the scaled image with
\* c = (s - t) div 2: the window lies inside the scaled image, the rows
\* removed above and below differ by at most one, and for s = t the offset
\* is 0
C13_CropToFill ==
    \A i \in Pastes(canvas, "crop") :
        LET o == canvas.ops[i]
            t == BandHeight(o)
            s == (735 * BoxHeight(o.src)) \div BoxWidth(o.src)
            c == o.fit.offset
        IN  /\ o.fit.scaled_height = s
            /\ s >= t
            /\ c = (s - t) \div 2
            /\ 0 <= c /\ c + t <= s
            /\ (s - t - c) - c \in {0, 1}
            /\ s = t => c = 0

TitleWrapped == pc \in {"wrapped", "drawn", "done", "saved"} \/ (pc = "raised" /\ font # NoFont)

\* C15: greedy wrapping: every emitted line is at most canvas_width - 80 =
\* 655 wide unless it is a single word that alone is wider (emitted as its own
\* line); a word starts a new line only when appending it to the non-empty
\* line before it would exceed 655
C15_GreedyWrap ==
    TitleWrapped =>
        \A k \in DOMAIN lines :
            /\ lines[k] # <<>>
            /\ TextWidth(lines[k]) <= 655 \/ Len(lines[k]) = 1
            /\ k > 1 => TextWidth(Append(lines[k - 1], lines[k][1])) > 655

\* a title wrapped into a line of two words and a line that is one word wider
\* than 655
C15_Witness ==
    /\ pc = "wrapped"
    /\ Len(lines) = 2
    /\ Len(lines[1]) = 2
    /\ Len(lines[2]) = 1 /\ TextWidth(lines[2]) > 655

\* the draw.text loop of lines 281-291 has run on a wrapped title with words
TextStepRan == lines # <<>> /\ (pc \in {"drawn", "done", "saved"} \/ pc = "raised")

\* C16: the block of n wrapped lines is drawn vertically centred in the
\* banner with a fixed line height of 42: line i (from 0) is drawn at
\* y = banner_y + (banner_height - n * 42) div 2 + i * 42 and horizontally
\* centred at x = (canvas_width - line_width) div 2
C16_LinesCentred ==
    TextStepRan =>
        \A k \in DOMAIN lines :
            \E i \in OpsOf(canvas, "text") :
                /\ canvas.ops[i].fit = lines[k]
                /\ canvas.ops[i].xy[1] = (735 - TextWidth(lines[k])) \div 2
                /\ canvas.ops[i].xy[2] = 400 + ((120 - Len(lines) * 42) \div 2) + (k - 1) * 42

\* what the call of a thread hands back when it runs alone on this machine
AloneOutcome(l) ==
    RenderAlone(l.source_img, l.title, l.use_auto_color, l.manual_color,
                numpy_weak_scalars, l.fault, fonts)
\* the render of a thread is over (create_color_matched_template has returned
\* or raised)
RenderOver(l) == l.pc \in {"raised", "done", "saved"}

\* C18: concurrent renders do not interfere: under every interleaving of two
\* invocations, each one hands back (canvas and colour, or the exception)
\* what it hands back when run alone on the same arguments
C18_NoInterference ==
    /\ RenderOver(Locals) => outcome = AloneOutcome(Locals)
    /\ other # NoThread /\ RenderOver(other) => other.outcome = AloneOutcome(other)

\* the second thread has returned its canvas while the first one is suspended
\* in the middle of its render, its own canvas allocated and partly drawn
C18_Witness ==
    /\ current = 2
    /\ outcome.status = "returned"
    /\ other # NoThread
    /\ other.pc \in {"top", "bottom", "banner"}
    /\ other.canvas.allocated
    /\ other.source_img # source_img

\* the candidate paths holding a file that loads
Loadable == {i \in DOMAIN font_paths : fonts[i] = "ok"}

\* C19: load_font never raises: it hands back the font of the first
\* candidate path, in list order, that exists and loads, passing over the
\* candidates that are missing or whose loading raises, and the built-in
\* default font when no candidate loads
C19_LoadFontNeverFails ==
    (fpc = "returned" \/ font # NoFont) =>
        /\ ~font.raised
        /\ Loadable = {} => font.builtin
        /\ Loadable # {} =>
              /\ ~font.builtin
              /\ \E i \in Loadable :
                    /\ font.path = font_paths[i]
                    /\ \A j \in Loadable : i <= j

\* load_font has passed over a first candidate that raised and a missing
\* second one, and handed back the third
C19_Witness ==
    /\ fpc = "returned"
    /\ fonts[1] = "broken"
    /\ fonts[2] = "missing"
    /\ fonts[3] = "ok"
    /\ font.path = font_paths[3]

\* the stage of the drawing an operation belongs to
Stage(o) ==
    IF o.op = "paste" THEN 1
    ELSE IF o.what = "banner" THEN 2
    ELSE IF o.what \in {"dot_top", "dot_bottom"} THEN 3
    ELSE 4
\* operation i of a canvas is the shadow pass at offset d of the line whose
\* foreground pass is drawn at <<x, y>>
ShadowOf(cv, i, d, x, y) ==
    /\ cv.ops[i].what = "shadow"
    /\ cv.ops[i].xy[1] = x + d
    /\ cv.ops[i].xy[2] = y + d

C21_LayoutConstants ==
    /\ generator.top_image_height + generator.banner_height + generator.bottom_image_height
          = generator.canvas_height
    /\ generator.top_image_height = 400 /\ generator.banner_height = 120
    /\ generator.bottom_image_height = 582 /\ generator.canvas_height = 1102
    /\ generator.bottom_image_height > 0
    /\ generator = SmartColorPinterestGenerator

\* a render has gone through every statement and returned, the attributes
\* being those of the constructor
C21_Witness ==
    /\ pc = "done"
    /\ outcome.status = "returned"
    /\ generator.bottom_image_height = 582

UpperHexChars == {"0", "1", "2", "3", "4", "5", "6", "7", "8", "9", "A", "B", "C", "D", "E", "F"}

\* C22: every value detect_dominant_color returns is "#" followed by exactly
\* six upper-case hexadecimal digits, and each channel of an emitted colour is
\* an integer in 0..255 after enhancement, boost and clamping
C22_UpperHexReturned ==
    apc = "returned" /\ ~analysis.raised =>
        /\ Len(analysis.value) = 7
        /\ analysis.value[1] = "#"
        /\ \A k \in 2..7 : analysis.value[k] \in UpperHexChars
        /\ analysis.best # NoColor =>
              /\ \A k \in 1..3 : PostProcess(analysis.best)[k] \in 0..255
              /\ ChannelsOf(analysis.value) = PostProcess(analysis.best)

\* a detected colour with hexadecimal letters has been returned: bucket
\* (224, 32, 32) of a vivid red image, emitted as #FF2C2C
C22_Witness ==
    /\ apc = "returned"
    /\ analysis.best = <<224, 32, 32>>
    /\ analysis.value = <<"#", "F", "F", "2", "C", "2", "C">>

\* the pixel columns and rows a draw.rectangle fills: both end points of its
\* box included
ColsFilled(o) == o.xy[1]..o.xy[3]
RowsFilled(o) == o.xy[2]..o.xy[4]
DotsOf(cv, what) == {cv.ops[i] : i \in OpsOf(cv, what)}

\* C23: the dotted borders are two rows of white square dots of 4 x 4 pixels
\* at x = 20, 32, 44, ... (step 12); every dot lies inside the banner rows
\* [400, 520) and leaves at least 20 pixels to the left and to the right
\* canvas edge; both rows have the same dots at the same x, and the top row is
\* as far below the top edge of the banner as the bottom row is above its
\* bottom edge
C23_DottedBorders ==
    pc \in {"dots", "wrapped", "drawn", "done", "saved"} =>
        LET top == DotsOf(canvas, "dot_top")
            bottom == DotsOf(canvas, "dot_bottom")
        IN  /\ \A o \in top \cup bottom :
                  /\ o.fill = White
                  /\ Cardinality(ColsFilled(o)) = 4
                  /\ Cardinality(RowsFilled(o)) = 4
                  /\ (o.xy[1] - 20) % 12 = 0
                  /\ o.xy[1] >= 20
                  /\ o.xy[3] <= 735 - 20 - 1
                  /\ RowsFilled(o) \subseteq 400..519
            /\ {o.xy[1] : o \in top} = {o.xy[1] : o \in bottom}
            /\ top # {}
            /\ \A o \in top, q \in bottom : o.xy[2] - 400 = 519 - q.xy[4]

\* C24: for every title, all wrapped lines are drawn inside the banner: with
\* n lines of height 42 the y of the first line is at least banner_y and the
\* y of the last line plus 42 is at most banner_y + banner_height
C24_TextInsideBanner ==
    TextStepRan =>
        LET n == Len(lines)
            first_y == StartY(n)
            last_y == StartY(n) + (n - 1) * 42
        IN  /\ first_y >= 400
            /\ last_y + 42 <= 400 + 120

\* the render is past the two bands or has stopped in them
PastLayout == pc \in {"planned", "top", "bottom", "banner", "dots", "wrapped", "drawn", "done",
                      "saved", "raised"}

\* C25: for every decodable source of width and height at least 1 the layout
\* arithmetic is well defined and the bands are rendered: both band sources
\* have positive width and height (no division by zero in the aspect ratio),
\* every scaled height floor(735 * srcH / srcW) is at least 1, and the render
\* does not stop in the layout with ZeroDivisionError or with the ValueError
\* of a resize
C25_LayoutWellDefined ==
    source_img.readable /\ source_img.width >= 1 /\ source_img.height >= 1 /\ PastLayout
    /\ top_image # NoBox =>
        /\ \A b \in {top_image, bottom_image} :
              /\ BoxWidth(b) > 0 /\ BoxHeight(b) > 0
              /\ (735 * BoxHeight(b)) \div BoxWidth(b) >= 1
        /\ pc = "raised" => outcome.error # "ZeroDivisionError"
        /\ pc = "raised" /\ OpsOf(canvas, "bottom") = {} => outcome.error # "ValueError"

\* the words of a sequence of lines, in order
RECURSIVE Concatenated(_)
Concatenated(ls) == IF ls = <<>> THEN <<>> ELSE ls[1] \o Concatenated(Tail(ls))

\* C26: wrapping loses and reorders nothing: the words of the emitted lines,
\* read in order, are exactly the words of the title in their original
\* order; no emitted line is empty, and a title without words yields no line
C26_WrapKeepsWords ==
    TitleWrapped =>
        /\ Concatenated(lines) = title
        /\ \A k \in DOMAIN lines : lines[k] # <<>>
        /\ title = <<>> => lines = <<>>

\* a title of three words wrapped into two lines, its first word wider than
\* a line
C26_Witness ==
    /\ pc = "wrapped"
    /\ Len(title) = 3
    /\ TextWidth(<<title[1]>>) > max_width
    /\ Len(lines) = 2

\* C27: the Python generator of design.py and the browser variant of
\* template.py agree on the layout mode: every source width and height is
\* classified as grid by both or by neither
C27_VariantsAgreeOnGrid ==
    pc \in {"planned", "top", "bottom", "banner", "dots", "wrapped", "drawn", "done", "saved"} =>
        is_grid = isGrid(source_img.width, source_img.height)

\* C28: two invocations of generate_color_matched_pinterest_template or of
\* create_smart_color_template without an explicit output_path, one after
\* the other or concurrent, never resolve to the same output path, so the
\* file of a finished render is never overwritten by another render
C28_DistinctOutputPaths ==
    other # NoThread /\ output_path # NoPath /\ other.output_path # NoPath =>
        output_path # other.output_path

\* the steps of upload_image_to_buffer in the log
UploadSteps == {"graphql_presign", "s3_put", "finalize_upload"}
CallsOf(req) == {i \in DOMAIN net : net[i].req = req}

\* C29: upload_image_to_buffer runs pre-sign, S3 PUT and finalize in this
\* order; the PUT goes to the URL and the finalize uses the key of the
\* pre-sign response of the same call; a step runs only right after the
\* steps before it returned; a step that fails raises and is the last call;
\* a media URL is returned only after finalize gave a non-empty location
C29_UploadStepsInOrder ==
    /\ Cardinality(CallsOf("graphql_presign")) <= 1
    /\ presign # NoPresign => \E i \in CallsOf("graphql_presign") : net[i].ok
    /\ \A i \in CallsOf("s3_put") :
          /\ i > 1
          /\ net[i - 1].req = "graphql_presign" /\ net[i - 1].ok
          /\ net[i].arg = presign.url
    /\ \A i \in CallsOf("finalize_upload") :
          /\ i > 2
          /\ net[i - 1].req = "s3_put" /\ net[i - 1].ok
          /\ net[i - 2].req = "graphql_presign" /\ net[i - 2].ok
          /\ net[i].arg = presign.key
    /\ \A i \in DOMAIN net :
          net[i].req \in UploadSteps /\ ~net[i].ok =>
             i = Len(net) /\ upload = "raised" /\ media_url = "" /\ bpc = "end"
    /\ upload = "returned" =>
          /\ media_url # ""
          /\ \E i \in CallsOf("finalize_upload") : net[i].ok
    /\ media_url # "" => upload = "returned"

\* an upload that returned the location nested under details, after a PUT to
\* the URL "b" of the pre-sign answer and a finalize with its key "a"
C29_Witness ==
    /\ upload = "returned"
    /\ media_url = "https://media/2"
    /\ presign = [url |-> "b", key |-> "a"]
    /\ \E i \in CallsOf("finalize_upload") : net[i].arg = "a" /\ net[i - 1].arg = "b"

\* the answers that are 'y' up to case and surrounding blanks
YesAnswers == {<<"y">>, <<"Y">>, <<" ", "y", " ">>}

\* C30: main makes no upload and no scheduling call unless cookies.txt gave
\* a header of at least one whitelisted cookie, an image was chosen and the
\* answer to the confirmation was 'y'; schedule_pin is called only right after
\* upload_image_to_buffer returned a media URL, with that URL; whatever the
\* slots fetch did, a run that got cookies, an image and the confirmation
\* went on to the upload
C30_MainGuardsUpload ==
    /\ \A i \in DOMAIN net :
          net[i].req \in UploadSteps \cup {"schedule_pin"} =>
             /\ cookies_txt.readable
             /\ cookie_header # {}
             /\ cookie_header \subseteq COOKIE_WHITELIST \cap cookies_txt.names
             /\ chosen \in 1..images
             /\ answer \in YesAnswers
    /\ \A i \in CallsOf("schedule_pin") :
          /\ i > 1
          /\ net[i - 1].req = "finalize_upload" /\ net[i - 1].ok
          /\ upload = "returned"
          /\ media_url # ""
          /\ net[i].arg = media_url
    /\ \A i \in CallsOf("get_slots") : i = 1
    /\ bpc = "end" /\ cookie_header # {} /\ chosen > 0 /\ answer \in YesAnswers =>
          CallsOf("graphql_presign") # {}

\* a run whose slots fetch failed and that still uploaded the chosen image and
\* scheduled the pin, the answer being "Y"
C30_Witness ==
    /\ bpc = "end"
    /\ Len(net) = 5
    /\ net[1].req = "get_slots" /\ ~net[1].ok
    /\ net[5].req = "schedule_pin" /\ net[5].ok
    /\ answer = <<"Y">>
    /\ chosen = 2

====
